---- MODULE Spec2Model ----
(***************************************************************************)
(* Filter-based feature selection (PySpark notebooks): the mRMR notebook   *)
(* and the Top-N notebook.  The notebooks are linear scripts; each cell is *)
(* modelled as one action over the notebook's global variables.            *)
(*                                                                         *)
(* Scores are real numbers in the code (Python floats).  They are modelled *)
(* as exact rationals [num, den] with den >= 1; floating-point rounding is *)
(* not modelled.                                                           *)
(***************************************************************************)
EXTENDS Integers, Sequences, FiniteSets, TLC

(* ------------------------------ bounds --------------------------------- *)
\* largest number of features of a dataset
MaxF == 3
\* largest number of features of a dataset run through the aggregation stage
MaxPipeF == 2
\* largest number of records of a dataset
MaxRecs == 2
\* the association scores the relevance maps of the mRMR selector may hold
ScoreVals == {-1, 0, 1}
\* the scores of the entries of a pairwise map that lacks entries
PresentVals == {0, 1}
\* the correlation scores the Top-N selector may be given
CorrVals == {-2, -1, 0, 1, 2}
\* the values of a label and of a feature
DataVals == {0, 1}

VARIABLES
    rdd,        \* the dataset: a sequence of LabeledPoint [label, features]
    job,        \* the aggregation statement being run
    melted,     \* output of flatMap(meltLP...): a sequence of <<key, sample>>
    grouped,    \* output of groupByKey: key -> sequence of samples
    fscores,    \* collected list of <<feature index, score>>
    ffscores,   \* collected list of <<<<i, j>>, score>>
    scoreClass, \* Top-N: the scores re-aligned to feature order
    df,         \* Top-N: the sorted list of <<|score|, feature index>>
    fsIdx,      \* Top-N: the selected feature indices
    rddFS,      \* the dataset reduced to the selected features
    ncols,      \* number of features F, from the first record
    nfs,        \* number of features to select
    fdict,      \* ClassRelevance map: feature index -> score
    ffdict,     \* PairwiseRelevance map: <<i, j>> -> score
    selFidx,    \* mRMR: selected feature indices, in selection order
    selFscore,  \* mRMR: score of each selected feature at selection time
    canFidx,    \* mRMR: candidate feature indices (a Python list)
    mrmr_i,     \* mRMR: the sorted (cidx, score) list of the last round
    i,          \* mRMR: loop counter of "for i in range(nfs)"
    pc,         \* position of the script
    result      \* value of the last expression of the selection cell

pipeVars == <<rdd, job, melted, grouped, fscores, ffscores, scoreClass>>
topVars == <<df, fsIdx, rddFS>>
selVars == <<selFidx, selFscore, canFidx, mrmr_i, i, result>>
vars == <<pipeVars, topVars, selVars, ncols, nfs, fdict, ffdict, pc>>

(* ------------------------------ helpers -------------------------------- *)
Range(s) == {s[k] : k \in DOMAIN s}

\* Python's range(n): the list [0, ..., n-1], empty when n <= 0
PyRange(n) == [k \in 1..n |-> k - 1]

\* rational numbers as [num, den], den >= 1
Rat(n, d) == [num |-> n, den |-> d]
RatGt(a, b) == a.num * b.den > b.num * a.den
RatEq(a, b) == a.num * b.den = b.num * a.den

\* the pairs i < j over 0..n-1
Pairs(n) == {p \in (0..(n-1)) \X (0..(n-1)) : p[1] < p[2]}

(* ------------------------------ compute -------------------------------- *)
\* mutation: d.get(key, 0), a missing entry read as zero
DictGet_default(d, key) ==
    IF key \in DOMAIN d THEN [raised |-> FALSE, val |-> d[key]]
    ELSE [raised |-> FALSE, val |-> 0]

\* a dictionary subscript d[key]: the value, or KeyError when key is absent
DictGet(d, key) ==
    IF key \in DOMAIN d THEN [raised |-> FALSE, val |-> d[key]]
    ELSE [raised |-> TRUE, val |-> 0]

\* the key of ffdict that compute looks up for candidate cidx and selected sidx
\* mutation: the key built without the comparison, always (cidx, sidx)
ffKey_unordered(cidx, sidx) == <<cidx, sidx>>

ffKey(cidx, sidx) == IF cidx < sidx THEN <<cidx, sidx>> ELSE <<sidx, cidx>>

\* mrmrF after the first k iterations of "for sidx in selFidx"
RECURSIVE mrmrF(_, _, _, _)
mrmrF(cidx, ffd, sel, k) ==
    IF k = 0 THEN [raised |-> FALSE, val |-> 0]
    ELSE LET before == mrmrF(cidx, ffd, sel, k - 1)
             got == DictGet(ffd, ffKey(cidx, sel[k]))
         IN  IF before.raised THEN before
             ELSE [raised |-> got.raised, val |-> before.val + got.val]

\* mutation: the redundancy is the sum, not the mean
compute_sum(cidx, fd, ffd, sel) ==
    LET mrmrC == DictGet(fd, cidx)
        red == mrmrF(cidx, ffd, sel, Len(sel))
    IN  IF mrmrC.raised \/ red.raised
        THEN [raised |-> TRUE, score |-> Rat(0, 1)]
        ELSE [raised |-> FALSE, score |-> Rat(mrmrC.val - red.val, 1)]

\* mutation: with nothing selected the redundancy mrmrF is returned, not mrmrC
compute_first(cidx, fd, ffd, sel) ==
    LET mrmrC == DictGet(fd, cidx)
        red == mrmrF(cidx, ffd, sel, Len(sel))
    IN  IF mrmrC.raised \/ red.raised
        THEN [raised |-> TRUE, score |-> Rat(0, 1)]
        ELSE IF Len(sel) > 0
        THEN [raised |-> FALSE,
              score |-> Rat(mrmrC.val * Len(sel) - red.val, Len(sel))]
        ELSE [raised |-> FALSE, score |-> Rat(red.val, 1)]

\* compute(cidx, fdict, ffdict, selFidx): the score as a rational, or raised
compute(cidx, fd, ffd, sel) ==
    LET mrmrC == DictGet(fd, cidx)
        red == mrmrF(cidx, ffd, sel, Len(sel))
    IN  IF mrmrC.raised \/ red.raised
        THEN [raised |-> TRUE, score |-> Rat(0, 1)]
        ELSE IF Len(sel) > 0
        THEN [raised |-> FALSE,
              score |-> Rat(mrmrC.val * Len(sel) - red.val, Len(sel))]
        ELSE [raised |-> FALSE, score |-> Rat(mrmrC.val, 1)]

(* ------------------------- list operations ----------------------------- *)
\* list.sort(key=lambda tup: tup[1], reverse=True): a stable sort, so
\* elements with equal keys keep their original relative order
\* mutation: an unstable sort, a later element goes before its equals
RECURSIVE InsertDesc_unstable(_, _)
InsertDesc_unstable(s, x) ==
    IF s = <<>> THEN <<x>>
    ELSE IF ~RatGt(Head(s)[2], x[2]) THEN <<x>> \o s
    ELSE <<Head(s)>> \o InsertDesc_unstable(Tail(s), x)

RECURSIVE InsertDesc(_, _)
InsertDesc(s, x) ==
    IF s = <<>> THEN <<x>>
    ELSE IF RatGt(x[2], Head(s)[2]) THEN <<x>> \o s
    ELSE <<Head(s)>> \o InsertDesc(Tail(s), x)

RECURSIVE SortDesc(_)
SortDesc(s) ==
    IF s = <<>> THEN <<>>
    ELSE InsertDesc(SortDesc(SubSeq(s, 1, Len(s) - 1)), s[Len(s)])

\* mutation: list.pop(0), the first candidate is removed whatever x is
Remove_pop(s, x) == Tail(s)

\* list.remove(x): removes the first occurrence of x
RECURSIVE Remove(_, _)
Remove(s, x) ==
    IF s = <<>> THEN <<>>
    ELSE IF Head(s) = x THEN Tail(s)
    ELSE <<Head(s)>> \o Remove(Tail(s), x)

\* zip(a, b): pairs up to the shorter length
Zip(a, b) ==
    LET n == IF Len(a) < Len(b) THEN Len(a) ELSE Len(b)
    IN  [k \in 1..n |-> <<a[k], b[k]>>]

(* --------------------------- mRMR selection ---------------------------- *)
\* the relevance maps that the aggregation stage yields for F features
ClassMaps(F) == [0..(F-1) -> ScoreVals]
PairMaps(F) == [Pairs(F) -> ScoreVals]

\* the state at "selFidx = []; selFscore = []; canFidx = range(ncols)"
InitSel ==
    /\ selFidx = <<>>
    /\ selFscore = <<>>
    /\ canFidx = PyRange(ncols)
    /\ mrmr_i = <<>>
    /\ i = 0
    /\ pc = "loop"
    /\ result = <<>>

\* the variables of the aggregation stage and of Top-N, where they play no part
NoPipe ==
    /\ rdd = <<>>
    /\ job = "none"
    /\ melted = <<>>
    /\ grouped = <<>>
    /\ fscores = <<>>
    /\ ffscores = <<>>
    /\ scoreClass = <<>>

NoTop ==
    /\ df = <<>>
    /\ fsIdx = <<>>
    /\ rddFS = <<>>

\* the mRMR selection cell, on the complete relevance maps of F features
Init ==
    /\ ncols \in 1..MaxF
    /\ nfs \in -1..(MaxF + 1)
    /\ fdict \in ClassMaps(ncols)
    /\ ffdict \in PairMaps(ncols)
    /\ InitSel
    /\ NoPipe
    /\ NoTop

\* one iteration of "for i in range(nfs)" that runs to its end
\* mutation: the chosen feature is also deleted from the class map,
\* del fdict[best_feature_i[0]]
Round_del ==
    /\ pc = "loop"
    /\ i < nfs
    /\ \A k \in DOMAIN canFidx : ~compute(canFidx[k], fdict, ffdict, selFidx).raised
    /\ canFidx # <<>>
    /\ LET scored == [k \in DOMAIN canFidx |->
                        <<canFidx[k], compute(canFidx[k], fdict, ffdict, selFidx).score>>]
           sorted == SortDesc(scored)
           best_feature_i == sorted[1]
       IN  /\ mrmr_i' = sorted
           /\ selFidx' = Append(selFidx, best_feature_i[1])
           /\ selFscore' = Append(selFscore, best_feature_i[2])
           /\ canFidx' = Remove(canFidx, best_feature_i[1])
           /\ fdict' = [f \in DOMAIN fdict \ {best_feature_i[1]} |-> fdict[f]]
    /\ i' = i + 1
    /\ UNCHANGED <<ncols, nfs, ffdict, pc, result, pipeVars, topVars>>

Round ==
    /\ pc = "loop"
    /\ i < nfs
    /\ \A k \in DOMAIN canFidx : ~compute(canFidx[k], fdict, ffdict, selFidx).raised
    /\ canFidx # <<>>
    /\ LET scored == [k \in DOMAIN canFidx |->
                        <<canFidx[k], compute(canFidx[k], fdict, ffdict, selFidx).score>>]
           sorted == SortDesc(scored)
           best_feature_i == sorted[1]
       IN  /\ mrmr_i' = sorted
           /\ selFidx' = Append(selFidx, best_feature_i[1])
           /\ selFscore' = Append(selFscore, best_feature_i[2])
           /\ canFidx' = Remove(canFidx, best_feature_i[1])
    /\ i' = i + 1
    /\ UNCHANGED <<ncols, nfs, fdict, ffdict, pc, result, pipeVars, topVars>>

\* an iteration in which a dictionary lookup of compute misses: KeyError
\* leaves the list comprehension, nothing is assigned
RoundKeyError ==
    /\ pc = "loop"
    /\ i < nfs
    /\ \E k \in DOMAIN canFidx : compute(canFidx[k], fdict, ffdict, selFidx).raised
    /\ pc' = "KeyError"
    /\ UNCHANGED <<ncols, nfs, fdict, ffdict, selFidx, selFscore, canFidx,
                   mrmr_i, i, result, pipeVars, topVars>>

\* an iteration with no candidate left: mrmr_i is empty after the sort and
\* mrmr_i[0] raises IndexError
RoundIndexError ==
    /\ pc = "loop"
    /\ i < nfs
    /\ canFidx = <<>>
    /\ mrmr_i' = <<>>
    /\ pc' = "IndexError"
    /\ UNCHANGED <<ncols, nfs, fdict, ffdict, selFidx, selFscore, canFidx,
                   i, result, pipeVars, topVars>>

\* mutation: the loop leaves one round out, for i in range(nfs - 1)
Finish_early ==
    /\ pc = "loop"
    /\ i >= nfs - 1
    /\ result' = Zip(selFidx, selFscore)
    /\ pc' = "done"
    /\ UNCHANGED <<ncols, nfs, fdict, ffdict, selFidx, selFscore, canFidx,
                   mrmr_i, i, pipeVars, topVars>>

\* the loop is over: zip(selFidx, selFscore)
Finish ==
    /\ pc = "loop"
    /\ i >= nfs
    /\ result' = Zip(selFidx, selFscore)
    /\ pc' = "done"
    /\ UNCHANGED <<ncols, nfs, fdict, ffdict, selFidx, selFscore, canFidx,
                   mrmr_i, i, pipeVars, topVars>>

Next == Round \/ RoundIndexError \/ Finish

Spec == Init /\ [][Next]_vars

\* the notebook before the relevance maps and nfs are set
InitStart ==
    /\ ncols = 0
    /\ nfs = 0
    /\ fdict = <<>>
    /\ ffdict = <<>>
    /\ selFidx = <<>>
    /\ selFscore = <<>>
    /\ canFidx = <<>>
    /\ mrmr_i = <<>>
    /\ i = 0
    /\ pc = "start"
    /\ result = <<>>
    /\ NoPipe
    /\ NoTop

\* the cells up to the selection loop: the relevance maps of the dataset,
\* nfs, and selFidx = []; selFscore = []; canFidx = range(ncols)
Start ==
    /\ pc = "start"
    /\ ncols' \in 1..MaxF
    /\ nfs' \in -1..(MaxF + 1)
    /\ fdict' \in ClassMaps(ncols')
    /\ ffdict' \in [Pairs(ncols') -> PresentVals]
    /\ canFidx' = PyRange(ncols')
    /\ pc' = "loop"
    /\ UNCHANGED <<selFidx, selFscore, mrmr_i, i, result, pipeVars, topVars>>

NextFair == Start \/ Round \/ RoundIndexError \/ Finish

\* the notebook is a sequential script: it keeps running until it ends or
\* raises
SpecFair == InitStart /\ [][NextFair]_vars /\ WF_vars(NextFair)

\* the mRMR selection cell, on a pairwise map that may lack entries
InitMissing ==
    /\ ncols \in 1..MaxF
    /\ nfs \in -1..(MaxF + 1)
    /\ fdict \in ClassMaps(ncols)
    /\ \E D \in SUBSET Pairs(ncols) : ffdict \in [D -> PresentVals]
    /\ InitSel
    /\ NoPipe
    /\ NoTop

NextMissing == Round \/ RoundKeyError \/ RoundIndexError \/ Finish

SpecMissing == InitMissing /\ [][NextMissing]_vars

(* --------------------------- Top-N selection --------------------------- *)
\* mutation: the list taken to be in feature order, position = index
ListIndex_positional(s, x) == x + 1

\* list.index(x): the position of the first occurrence of x
ListIndex(s, x) == CHOOSE n \in DOMAIN s : s[n] = x /\ \A m \in 1..(n - 1) : s[m] # x

\* abs(x)
PyAbs(x) == IF x < 0 THEN -x ELSE x

\* s[0:n]: a negative n counts from the end, an n past the end is clipped
Slice0(s, n) ==
    LET stop == IF n < 0 THEN (IF Len(s) + n < 0 THEN 0 ELSE Len(s) + n)
                ELSE (IF n > Len(s) THEN Len(s) ELSE n)
    IN  SubSeq(s, 1, stop)

\* mutation: the sort ascending, reverse=True forgotten
RECURSIVE InsertByFirstDesc_asc(_, _)
InsertByFirstDesc_asc(s, x) ==
    IF s = <<>> THEN <<x>>
    ELSE IF x[1] < Head(s)[1] THEN <<x>> \o s
    ELSE <<Head(s)>> \o InsertByFirstDesc_asc(Tail(s), x)

\* df.sort(key=lambda tup: tup[0], reverse=True): stable, descending
RECURSIVE InsertByFirstDesc(_, _)
InsertByFirstDesc(s, x) ==
    IF s = <<>> THEN <<x>>
    ELSE IF x[1] > Head(s)[1] THEN <<x>> \o s
    ELSE <<Head(s)>> \o InsertByFirstDesc(Tail(s), x)

RECURSIVE SortByFirstDesc(_)
SortByFirstDesc(s) ==
    IF s = <<>> THEN <<>>
    ELSE InsertByFirstDesc(SortByFirstDesc(SubSeq(s, 1, Len(s) - 1)), s[Len(s)])

\* the orders in which collect may return the scored keys of a set K
Orders(K) ==
    {o \in [1..Cardinality(K) -> K] : \A a, b \in DOMAIN o : a # b => o[a] # o[b]}

NoSel ==
    /\ selFidx = <<>>
    /\ selFscore = <<>>
    /\ canFidx = <<>>
    /\ mrmr_i = <<>>
    /\ i = 0
    /\ result = <<>>

\* the Top-N notebook from the collected class scores on
InitTopN ==
    /\ ncols \in 1..MaxF
    /\ nfs \in -1..(MaxF + 1)
    /\ \E o \in Orders(0..(ncols - 1)) : \E sc \in [0..(ncols - 1) -> CorrVals] :
          fscores = [n \in DOMAIN o |-> <<o[n], sc[o[n]]>>]
    /\ job = "topn"
    /\ pc = "collected"
    /\ rdd = <<>>
    /\ melted = <<>>
    /\ grouped = <<>>
    /\ ffscores = <<>>
    /\ scoreClass = <<>>
    /\ fdict = <<>>
    /\ ffdict = <<>>
    /\ NoTop
    /\ NoSel

\* fscoresIdx, fscoresScore = zip(*fscores)
\* scoreClass = [fscoresScore[fscoresIdx.index(i)] for i in range(ncols)]
\* (every i in range(ncols) is a key of fscores: the first record has ncols
\* features)
Realign ==
    /\ pc = "collected"
    /\ job = "topn"
    /\ LET fscoresIdx == [n \in DOMAIN fscores |-> fscores[n][1]]
           fscoresScore == [n \in DOMAIN fscores |-> fscores[n][2]]
       IN  /\ \A f \in 0..(ncols - 1) : f \in Range(fscoresIdx)
           /\ scoreClass' = [n \in 1..ncols |->
                                fscoresScore[ListIndex(fscoresIdx, n - 1)]]
    /\ pc' = "aligned"
    /\ UNCHANGED <<rdd, job, melted, grouped, fscores, ffscores, topVars,
                   selVars, ncols, nfs, fdict, ffdict>>

\* df = zip([abs(x) for x in scoreClass], range(len(scoreClass)))
\* df.sort(key=lambda tup: tup[0], reverse=True)
TopNdf(sc) ==
    SortByFirstDesc(Zip([n \in DOMAIN sc |-> PyAbs(sc[n])], PyRange(Len(sc))))

\* fsIdx = [x[1] for x in df[0:nfs]]
TopNfsIdx(sc, n) ==
    LET head == Slice0(TopNdf(sc), n)
    IN  [k \in DOMAIN head |-> head[k][2]]

\* the Top-N selection cell
TopN ==
    /\ pc = "aligned"
    /\ df' = TopNdf(scoreClass)
    /\ fsIdx' = TopNfsIdx(scoreClass, nfs)
    /\ pc' = "done"
    /\ UNCHANGED <<pipeVars, selVars, rddFS, ncols, nfs, fdict, ffdict>>

NextTopN == Realign \/ TopN

SpecTopN == InitTopN /\ [][NextTopN]_vars

(* ------------------------- aggregation stage --------------------------- *)
\* a LabeledPoint
LabeledPoint(l, f) == [label |-> l, features |-> f]

\* mutation: the last feature is left out, range(features.size - 1)
meltLPclass_short(lp) ==
    [k \in 1..(Len(lp.features) - 1) |-> <<k - 1, <<lp.label, lp.features[k]>>>>]

\* meltLPclass(lp): [(i, (label, features[i])) for i in r]
meltLPclass(lp) ==
    [k \in 1..Len(lp.features) |-> <<k - 1, <<lp.label, lp.features[k]>>>>]

\* mutation: "if i != j", both orderings of a pair are emitted
PairSeq_both(n) ==
    SelectSeq([k \in 1..(n * n) |-> <<(k - 1) \div n, (k - 1) % n>>],
              LAMBDA p : p[1] # p[2])

\* the pairs (i, j) in the order of "for i in r for j in r if i < j"
PairSeq(n) ==
    SelectSeq([k \in 1..(n * n) |-> <<(k - 1) \div n, (k - 1) % n>>],
              LAMBDA p : p[1] < p[2])

\* meltLPfeatures(lp): [((i, j), (features[i], features[j])) ... if i < j]
meltLPfeatures(lp) ==
    LET ps == PairSeq(Len(lp.features))
    IN  [k \in DOMAIN ps |->
            <<ps[k], <<lp.features[ps[k][1] + 1], lp.features[ps[k][2] + 1]>>>>]

\* the melt function of a job
Melt(j, lp) == IF j = "mrmrFeatures" THEN meltLPfeatures(lp) ELSE meltLPclass(lp)

\* rdd.flatMap(melt): the melts of the records, concatenated
RECURSIVE FlatMap(_, _, _)
FlatMap(j, recs, n) ==
    IF n = 0 THEN <<>> ELSE FlatMap(j, recs, n - 1) \o Melt(j, recs[n])

\* groupByKey: every key with the samples emitted under it
GroupByKey(kv) ==
    [k \in {kv[n][1] : n \in DOMAIN kv} |->
        LET mine == SelectSeq(kv, LAMBDA e : e[1] = k)
        IN  [n \in DOMAIN mine |-> mine[n][2]]]

\* a column of samples without variance (also a single sample)
Constant(values, col) == \A a, b \in DOMAIN values : values[a][col] = values[b][col]

\* pearsonr(v1, v2)[0]: r_num / r_den, which is NaN (0/0) when either
\* column has no variance; otherwise the coefficient of these samples
pearsonr(values) ==
    [nan |-> Constant(values, 1) \/ Constant(values, 2), of |-> values]

\* normalized_mutual_info_score(v1, v2): a number for every input
normalized_mutual_info_score(values) == [nan |-> FALSE, of |-> values]

\* corr(x) and mi(x): (idx, score of the group)
corr(x) == <<x[1], pearsonr(x[2])>>
mi(x) == <<x[1], normalized_mutual_info_score(x[2])>>

\* the association function of a job
Assoc(j, x) == IF j = "topn" THEN corr(x) ELSE mi(x)

\* dict(kv): key -> value of the last pair with that key
PyDict(kv) ==
    [k \in {kv[n][1] : n \in DOMAIN kv} |->
        kv[CHOOSE n \in DOMAIN kv :
              kv[n][1] = k /\ \A m \in DOMAIN kv : m > n => kv[m][1] # k][2]]

\* the records of F features
Records(F) ==
    {LabeledPoint(l, f) : l \in DataVals, f \in [1..F -> DataVals]}

\* every record has as many features as the first one
Consistent(recs) == \A n \in DOMAIN recs : Len(recs[n].features) = Len(recs[1].features)

\* the datasets: csv2lp yields a shorter vector for a shorter line, while
\* loadLibSVMFile gives every vector of the file the same size
Datasets(j) ==
    LET all == UNION {Records(F) : F \in 1..MaxPipeF}
        seqs == UNION {[1..n -> all] : n \in 1..MaxRecs}
    IN  IF j = "topn" THEN {recs \in seqs : Consistent(recs)} ELSE seqs

\* one aggregation statement of a notebook, from the dataset on
InitPipe ==
    /\ job \in {"topn", "mrmrClass", "mrmrFeatures"}
    /\ rdd \in Datasets(job)
    /\ ncols = Len(rdd[1].features)
    /\ nfs = 1
    /\ melted = <<>>
    /\ grouped = <<>>
    /\ fscores = <<>>
    /\ ffscores = <<>>
    /\ scoreClass = <<>>
    /\ fdict = <<>>
    /\ ffdict = <<>>
    /\ pc = "flatMap"
    /\ NoTop
    /\ NoSel

\* rdd.flatMap(meltLPclass) or rdd.flatMap(meltLPfeatures)
DoFlatMap ==
    /\ pc = "flatMap"
    /\ melted' = FlatMap(job, rdd, Len(rdd))
    /\ pc' = "groupByKey"
    /\ UNCHANGED <<rdd, job, grouped, fscores, ffscores, scoreClass, topVars,
                   selVars, ncols, nfs, fdict, ffdict>>

\* .groupByKey()
DoGroupByKey ==
    /\ pc = "groupByKey"
    /\ grouped' = GroupByKey(melted)
    /\ pc' = IF melted = <<>> THEN "collected" ELSE "map"
    /\ UNCHANGED <<rdd, job, melted, fscores, ffscores, scoreClass, topVars,
                   selVars, ncols, nfs, fdict, ffdict>>

\* the keys whose score has been returned
Returned == {fscores[n][1] : n \in DOMAIN fscores} \cup {ffscores[n][1] : n \in DOMAIN ffscores}

\* .map(corr) or .map(mi) of one group; collect returns the scored keys in
\* the order in which the groups happen to be laid out
DoMap(k) ==
    /\ pc = "map"
    /\ k \in DOMAIN grouped
    /\ k \notin Returned
    /\ IF job = "mrmrFeatures"
       THEN /\ ffscores' = Append(ffscores, Assoc(job, <<k, grouped[k]>>))
            /\ UNCHANGED fscores
       ELSE /\ fscores' = Append(fscores, Assoc(job, <<k, grouped[k]>>))
            /\ UNCHANGED ffscores
    /\ pc' = IF Returned \cup {k} = DOMAIN grouped THEN "collected" ELSE "map"
    /\ UNCHANGED <<rdd, job, melted, grouped, scoreClass, topVars, selVars,
                   ncols, nfs, fdict, ffdict>>

\* fdict = dict(fscores)
BuildFdict ==
    /\ pc = "collected"
    /\ job = "mrmrClass"
    /\ fdict' = PyDict(fscores)
    /\ pc' = "built"
    /\ UNCHANGED <<pipeVars, topVars, selVars, ncols, nfs, ffdict>>

\* ffdict = dict(ffscores)
BuildFfdict ==
    /\ pc = "collected"
    /\ job = "mrmrFeatures"
    /\ ffdict' = PyDict(ffscores)
    /\ pc' = "built"
    /\ UNCHANGED <<pipeVars, topVars, selVars, ncols, nfs, fdict>>

NextPipe ==
    \/ DoFlatMap
    \/ DoGroupByKey
    \/ \E k \in DOMAIN grouped : DoMap(k)
    \/ BuildFdict
    \/ BuildFfdict
    \/ Realign

SpecPipe == InitPipe /\ [][NextPipe]_vars

(* ----------------------- dimensionality reduction ---------------------- *)
\* sorted(s): ascending
RECURSIVE InsertAsc(_, _)
InsertAsc(s, x) ==
    IF s = <<>> THEN <<x>>
    ELSE IF x < Head(s) THEN <<x>> \o s
    ELSE <<Head(s)>> \o InsertAsc(Tail(s), x)

RECURSIVE SortAsc(_)
SortAsc(s) ==
    IF s = <<>> THEN <<>>
    ELSE InsertAsc(SortAsc(SubSeq(s, 1, Len(s) - 1)), s[Len(s)])

\* mutation: the features taken in ascending index order, for i in sorted(fsIdx)
reduceLP_sorted(lp, idx) ==
    LET asc == SortAsc(idx)
    IN  LabeledPoint(lp.label, [k \in DOMAIN asc |-> lp.features[asc[k] + 1]])

\* reduceLP(lp, fsIdx): v = [features[i] for i in fsIdx];
\* LabeledPoint(label, Vectors.dense(v))
reduceLP(lp, idx) ==
    LabeledPoint(lp.label, [k \in DOMAIN idx |-> lp.features[idx[k] + 1]])

\* the sequences of at most n indices of F features
IndexSeqs(F, n) == UNION {[1..m -> 0..(F - 1)] : m \in 0..n}

\* the reduction cell, on one record and a sequence of valid indices
InitReduce ==
    /\ ncols \in 1..MaxF
    /\ rdd \in [{1} -> Records(ncols)]
    /\ fsIdx \in IndexSeqs(ncols, MaxF)
    /\ nfs = Len(fsIdx)
    /\ job = "reduce"
    /\ pc = "selected"
    /\ melted = <<>>
    /\ grouped = <<>>
    /\ fscores = <<>>
    /\ ffscores = <<>>
    /\ scoreClass = <<>>
    /\ fdict = <<>>
    /\ ffdict = <<>>
    /\ df = <<>>
    /\ rddFS = <<>>
    /\ NoSel

\* rddFS = rdd.map(lambda x: reduceLP(x, fsIdx))
DoReduce ==
    /\ pc = "selected"
    /\ job = "reduce"
    /\ rddFS' = [n \in DOMAIN rdd |-> reduceLP(rdd[n], fsIdx)]
    /\ pc' = "reduced"
    /\ UNCHANGED <<pipeVars, selVars, df, fsIdx, ncols, nfs, fdict, ffdict>>

NextReduce == DoReduce

SpecReduce == InitReduce /\ [][NextReduce]_vars

(* ===================== properties of the mRMR selector ================= *)
\* the feature indices of the dataset
Features == 0..(ncols - 1)

NoDup(s) == \A a, b \in DOMAIN s : a # b => s[a] # s[b]

Min2(a, b) == IF a < b THEN a ELSE b
Max2(a, b) == IF a < b THEN b ELSE a

RECURSIVE SumOver(_, _)
SumOver(S, f) ==
    IF S = {} THEN 0
    ELSE LET x == CHOOSE y \in S : TRUE
         IN  f[x] + SumOver(S \ {x}, f)

\* mrmrScore(c) of the selection rule, for the set S of selected features:
\* ClassRelevance[c] - (sum over s in S of PairwiseRelevance[min, max]) / |S|
mrmrScore(c, S) ==
    IF S = {} THEN Rat(fdict[c], 1)
    ELSE Rat(fdict[c] * Cardinality(S)
               - SumOver(S, [s \in S |-> ffdict[<<Min2(c, s), Max2(c, s)>>]]),
             Cardinality(S))

\* the features selected before round k, and the candidates of round k
SelectedBefore(k) == {selFidx[n] : n \in 1..(k - 1)}
CandidatesOf(k) == Features \ SelectedBefore(k)

\* selected and candidates partition the feature indices
Partitioned ==
    /\ NoDup(selFidx)
    /\ NoDup(canFidx)
    /\ Range(selFidx) \cap Range(canFidx) = {}
    /\ Range(selFidx) \cup Range(canFidx) = Features

\* a step that changes either list moves one candidate to the end of selected
MovesOne ==
    (selFidx' # selFidx \/ canFidx' # canFidx) =>
        \E x \in Range(canFidx) :
            /\ selFidx' = Append(selFidx, x)
            /\ Range(canFidx') = Range(canFidx) \ {x}
            /\ Len(canFidx') = Len(canFidx) - 1

\* C1: in every state of the selection loop the selected list has no
\* duplicate and selected and candidates partition {0..F-1}; every round
\* moves exactly one index from candidates to selected.
C1_Partition == [](Partitioned) /\ [][MovesOne]_vars

C1_Witness ==
    /\ Len(selFidx) = 3
    /\ canFidx = <<>>
    /\ selFidx[1] > selFidx[2]

\* C2: in every round the score of every candidate is ClassRelevance[c]
\* minus the mean pairwise relevance with the selected features (exactly
\* ClassRelevance[c] in the first round), the feature selected has a maximal
\* score among the candidates of its round, and the score recorded with it
\* is that score.  Stated of the round just run, in the state it leaves.
C2_ScoreAndArgmax ==
    /\ Len(selFscore) = Len(selFidx)
    /\ selFidx # <<>> =>
          LET k == Len(selFidx)
          IN  /\ selFidx[k] \in CandidatesOf(k)
              /\ RatEq(selFscore[k], mrmrScore(selFidx[k], SelectedBefore(k)))
              /\ \A c \in CandidatesOf(k) :
                    ~RatGt(mrmrScore(c, SelectedBefore(k)), selFscore[k])
    /\ mrmr_i # <<>> =>
          /\ {e[1] : e \in Range(mrmr_i)} = CandidatesOf(Len(selFidx))
          /\ Len(mrmr_i) = Cardinality(CandidatesOf(Len(selFidx)))
          /\ \A e \in Range(mrmr_i) :
                RatEq(e[2], mrmrScore(e[1], SelectedBefore(Len(selFidx))))
          /\ selFscore[Len(selFscore)] = mrmr_i[1][2]
          /\ selFidx[Len(selFidx)] = mrmr_i[1][1]

\* a third round in which a negative pairwise score raised the winner's
\* score above its class relevance, the mean not being an integer
C2_Witness ==
    /\ Len(selFidx) = 3
    /\ selFscore[3].den = 2
    /\ selFscore[3].num % 2 = 1
    /\ selFscore[3].num > 2 * fdict[selFidx[3]]
    /\ selFscore[2].num < 0

\* C3: in every round, among the candidates that share the maximum score
\* the one selected has the smallest feature index.  Stated of the round
\* just run, in the state it leaves.
C3_TieBreak ==
    selFidx # <<>> =>
        LET k == Len(selFidx)
        IN  \A c \in CandidatesOf(k) :
                RatEq(mrmrScore(c, SelectedBefore(k)), selFscore[k]) => selFidx[k] <= c

\* a tie in the second round, after the first round removed an index from
\* the middle of the candidate list
C3_Witness ==
    /\ Len(selFidx) >= 2
    /\ selFidx[1] = 1
    /\ selFidx[2] = 0
    /\ 2 \in Features
    /\ RatEq(mrmrScore(2, {1}), selFscore[2])

\* C6: a selection size N <= 0 or N > F ends in an error before any score is
\* computed or any round is run, and no selection result is produced.
C6_InvalidSizeRejected ==
    (nfs <= 0 \/ nfs > ncols) =>
        /\ pc # "done"
        /\ selFidx = <<>>
        /\ mrmr_i = <<>>

\* C7: a round in which compute misses a pairwise entry ends the run in an
\* error: nothing is selected in it, no score is recorded, and nothing
\* happens afterwards.
MissingLookup ==
    \E c \in Range(canFidx) : \E s \in Range(selFidx) :
        <<Min2(c, s), Max2(c, s)>> \notin DOMAIN ffdict

C7_Step ==
    /\ pc # "KeyError"
    /\ (pc = "loop" /\ i < nfs /\ MissingLookup) =>
          /\ pc' = "KeyError"
          /\ selFidx' = selFidx
          /\ selFscore' = selFscore
          /\ canFidx' = canFidx
          /\ result' = result

C7_MissingEntryFatal == [][C7_Step]_vars

C7_Witness ==
    /\ pc = "KeyError"
    /\ Len(selFidx) = 2
    /\ result = <<>>
    /\ <<Min2(canFidx[1], selFidx[1]), Max2(canFidx[1], selFidx[1])>> \in DOMAIN ffdict
    /\ <<Min2(canFidx[1], selFidx[2]), Max2(canFidx[1], selFidx[2])>> \notin DOMAIN ffdict

(* ===================== properties of the Top-N selector ================ *)
\* the class score of feature f: the score collected with key f
ScoreOf(f) == (CHOOSE e \in Range(fscores) : e[1] = f)[2]
AbsScoreOf(f) == IF ScoreOf(f) < 0 THEN -ScoreOf(f) ELSE ScoreOf(f)

\* feature a is ranked before feature b: greater |score|, or equal |score|
\* and smaller index
RankedBefore(a, b) ==
    \/ AbsScoreOf(a) > AbsScoreOf(b)
    \/ AbsScoreOf(a) = AbsScoreOf(b) /\ a < b

\* C4: for 1 <= N <= F the Top-N selector returns exactly N distinct feature
\* indices by descending |score|; no unreturned feature has a greater |score|
\* than a returned one; features of equal |score| appear, and are cut off at
\* the N boundary, in ascending index order.
C4_TopN ==
    (pc = "done" /\ job = "topn" /\ 1 <= nfs /\ nfs <= ncols) =>
        /\ Len(fsIdx) = nfs
        /\ NoDup(fsIdx)
        /\ Range(fsIdx) \subseteq Features
        /\ \A a, b \in DOMAIN fsIdx : a < b => RankedBefore(fsIdx[a], fsIdx[b])
        /\ \A u \in Features \ Range(fsIdx) :
              \A r \in Range(fsIdx) : RankedBefore(r, u)

\* two of three features returned; the second shares its |score|, with the
\* opposite sign, with the one cut off; the scores were collected out of order
C4_Witness ==
    /\ pc = "done"
    /\ job = "topn"
    /\ ncols = 3
    /\ nfs = 2
    /\ fsIdx = <<2, 0>>
    /\ ScoreOf(0) = -1
    /\ ScoreOf(1) = 1
    /\ fscores[1][1] = 1

(* =================== properties of the aggregation stage =============== *)
\* the score of the group of key k, whatever the order of collect
ClassScore(k) == Assoc(job, <<k, grouped[k]>>)[2]

\* C5: the key-to-score mapping of fdict and ffdict built by dict(...) and
\* of scoreClass re-aligned by index lookup is the same for every order in
\* which collect returns the (key, score) pairs.
C5_OrderIndependent ==
    /\ (pc = "built" /\ job = "mrmrClass") =>
          fdict = [k \in DOMAIN grouped |-> ClassScore(k)]
    /\ (pc = "built" /\ job = "mrmrFeatures") =>
          ffdict = [k \in DOMAIN grouped |-> ClassScore(k)]
    /\ (pc = "aligned" /\ job = "topn" /\ rdd # <<>>) =>
          scoreClass = [n \in 1..ncols |-> ClassScore(n - 1)]

\* the score of feature 1 was returned before that of feature 0, and the
\* two scores differ
C5_Witness ==
    /\ pc = "aligned"
    /\ job = "topn"
    /\ rdd # <<>>
    /\ ncols = 2
    /\ fscores[1][1] = 1
    /\ scoreClass[1] # scoreClass[2]
    /\ ~scoreClass[1].nan

\* C8: a dataset with a record whose feature vector is not as long as that
\* of the first record aborts the run; no scores are collected and no
\* relevance map is built from it.
C8_InconsistentLengthFatal ==
    ~Consistent(rdd) => pc \notin {"collected", "built", "aligned"}

\* a group on which the statistic is undefined
Degenerate(values) ==
    Len(values) < 2 \/ Constant(values, 1) \/ Constant(values, 2)

\* C9: a group with fewer than 2 samples or without variance yields an error
\* for its key, never a number or a NaN returned with the other scores.
C9_DegenerateIsError ==
    \A k \in Returned : ~Degenerate(grouped[k])

\* C10: for a non-empty dataset whose records all have F features, the class
\* pairing emits F samples per record, every key 0..F-1 has a group with
\* exactly one (label, value) sample per record, and the ClassRelevance
\* map has the key set {0..F-1}.
C10_ClassKeys ==
    (job \in {"topn", "mrmrClass"} /\ Consistent(rdd)) =>
        /\ pc # "flatMap" => Len(melted) = ncols * Len(rdd)
        /\ pc \notin {"flatMap", "groupByKey"} =>
              /\ DOMAIN grouped = Features
              /\ \A k \in Features :
                    /\ Len(grouped[k]) = Len(rdd)
                    /\ \A r \in DOMAIN rdd :
                          grouped[k][r] = <<rdd[r].label, rdd[r].features[k + 1]>>
        /\ pc \in {"collected", "built", "aligned"} =>
              /\ {fscores[n][1] : n \in DOMAIN fscores} = Features
              /\ Len(fscores) = ncols
        /\ (pc = "built" /\ job = "mrmrClass") => DOMAIN fdict = Features
        /\ (pc = "aligned" /\ job = "topn") => Len(scoreClass) = ncols

\* two records of two features; the map is built from scores collected out
\* of feature order
C10_Witness ==
    /\ pc = "built"
    /\ job = "mrmrClass"
    /\ Len(rdd) = 2
    /\ ncols = 2
    /\ Consistent(rdd)
    /\ fscores[1][1] = 1
    /\ DOMAIN fdict = {0, 1}

\* C11: for a non-empty dataset whose records all have F features, the
\* feature pairing emits F*(F-1)/2 samples per record and the
\* PairwiseRelevance map has exactly the keys (i, j) with 0 <= i < j < F,
\* F*(F-1)/2 of them: none with i = j, none with i > j, and every key once.
UnorderedPairs == {<<a, b>> : a \in Features, b \in Features} \ {p \in Features \X Features : p[1] >= p[2]}

C11_PairKeys ==
    (job = "mrmrFeatures" /\ Consistent(rdd)) =>
        /\ pc # "flatMap" => 2 * Len(melted) = ncols * (ncols - 1) * Len(rdd)
        /\ pc \notin {"flatMap", "groupByKey"} =>
              /\ DOMAIN grouped = UnorderedPairs
              /\ \A k \in UnorderedPairs : Len(grouped[k]) = Len(rdd)
        /\ pc \in {"collected", "built"} =>
              /\ {ffscores[n][1] : n \in DOMAIN ffscores} = UnorderedPairs
              /\ 2 * Len(ffscores) = ncols * (ncols - 1)
        /\ pc = "built" =>
              /\ DOMAIN ffdict = UnorderedPairs
              /\ 2 * Cardinality(DOMAIN ffdict) = ncols * (ncols - 1)
              /\ \A p \in DOMAIN ffdict : p[1] < p[2] /\ <<p[2], p[1]>> \notin DOMAIN ffdict

\* two records of two features: the map is built with the one key (0, 1)
C11_Witness ==
    /\ pc = "built"
    /\ job = "mrmrFeatures"
    /\ Len(rdd) = 2
    /\ ncols = 2
    /\ Consistent(rdd)
    /\ DOMAIN ffdict = {<<0, 1>>}
    /\ Len(grouped[<<0, 1>>]) = 2

(* ================== properties of the dimensionality reducer =========== *)
\* the reduced records: same label, one feature per index of fsIdx, the k-th
\* being the original feature of index fsIdx[k]
Projected ==
    pc = "reduced" =>
        /\ Len(rddFS) = Len(rdd)
        /\ \A n \in DOMAIN rdd :
              /\ rddFS[n].label = rdd[n].label
              /\ Len(rddFS[n].features) = Len(fsIdx)
              /\ \A k \in DOMAIN fsIdx :
                    rddFS[n].features[k] = rdd[n].features[fsIdx[k] + 1]
              /\ fsIdx = PyRange(ncols) => rddFS[n] = rdd[n]

\* C12: reduceLP returns a record with the same label and the features
\* features[idx[k]] in the order of idx; with idx = [0, ..., F-1] the record
\* returned equals the original; the input record is not modified.
C12_Reduce == [](Projected) /\ [][rdd' = rdd]_vars

\* three features reduced to two, in descending index order, with
\* different values
C12_Witness ==
    /\ pc = "reduced"
    /\ ncols = 3
    /\ fsIdx = <<2, 0>>
    /\ rdd[1].features = <<0, 1, 1>>
    /\ rddFS[1].features = <<1, 0>>

(* ================= the first mRMR round and Top-N with N = 1 =========== *)
\* the class relevance in feature order, as the Top-N selector takes it
ClassVector == [n \in 1..ncols |-> fdict[n - 1]]

\* C13: the first mRMR round selects the feature of maximal ClassRelevance
\* (the smallest index among several), with that value as its score, and
\* never misses a pairwise entry, the pairwise map not being read; with
\* N = 1 that feature is the result; when no ClassRelevance value is
\* negative, it is the feature the Top-N selector returns for N = 1.
C13_FirstRound ==
    /\ pc = "KeyError" => selFidx # <<>>
    /\ selFidx # <<>> =>
          LET f == selFidx[1]
          IN  /\ \A c \in Features :
                    /\ fdict[c] <= fdict[f]
                    /\ fdict[c] = fdict[f] => f <= c
              /\ selFscore[1] = Rat(fdict[f], 1)
              /\ (\A c \in Features : fdict[c] >= 0) =>
                    TopNfsIdx(ClassVector, 1) = <<f>>
              /\ (pc = "done" /\ nfs = 1) => result = <<<<f, Rat(fdict[f], 1)>>>>

\* N = 1 on an empty pairwise map; features 1 and 2 tie for the maximum
C13_Witness ==
    /\ pc = "done"
    /\ nfs = 1
    /\ ncols = 3
    /\ DOMAIN ffdict = {}
    /\ fdict[0] = 0
    /\ fdict[1] = 1
    /\ fdict[2] = 1
    /\ result[1][1] = 1
    /\ TopNfsIdx(ClassVector, 1) = <<1>>

(* ===================== termination of the mRMR selector ================ *)
ValidSize == 1 <= nfs /\ nfs <= ncols

\* the state in which a run with a valid size ends
DoneAfterN ==
    (ValidSize /\ pc = "done") =>
        /\ i = nfs
        /\ Len(selFidx) = nfs
        /\ Cardinality(Range(selFidx)) = nfs
        /\ Len(canFidx) = ncols - nfs
        /\ Len(result) = nfs
        /\ \A k \in 1..nfs :
              /\ result[k][1] = selFidx[k]
              /\ result[k][2] = selFscore[k]
              /\ RatEq(result[k][2], mrmrScore(selFidx[k], SelectedBefore(k)))

\* a round appends its choice and its score; what was chosen before stays
AppendsChoice ==
    selFidx' # selFidx =>
        /\ i' = i + 1
        /\ Len(selFidx) = i
        /\ selFidx' = Append(selFidx, mrmr_i'[1][1])
        /\ selFscore' = Append(selFscore, mrmr_i'[1][2])

\* C14: with 1 <= N <= F and complete maps the selector reaches the end
\* after exactly N rounds, with N selected and F - N candidates, and returns
\* N (index, score) pairs, the k-th being the choice and score of round k.
C14_Terminates ==
    /\ [](DoneAfterN)
    /\ [][AppendsChoice]_vars
    /\ (ValidSize /\ pc = "loop") ~> (pc = "done")

\* all three features selected, neither in index order nor in score order
C14_Witness ==
    /\ pc = "done" /\ nfs = 3 /\ ncols = 3
    /\ result[1][1] = 1 /\ result[2][1] = 0 /\ result[3][1] = 2
    /\ RatGt(result[1][2], result[3][2]) /\ RatGt(result[3][2], result[2][2])

\* a step of the selection leaves both maps as they are; the selected list
\* changes only by the append of one round, and every score of the round is
\* computed from the maps and the selected list as they were before it
FrameStep ==
    /\ fdict' = fdict
    /\ ffdict' = ffdict
    /\ selFidx' # selFidx =>
          /\ i' = i + 1
          /\ Len(selFidx') = Len(selFidx) + 1
          /\ SubSeq(selFidx', 1, Len(selFidx)) = selFidx
    /\ i' = i + 1 =>
          \A k \in DOMAIN mrmr_i' :
              RatEq(mrmr_i'[k][2], mrmrScore(mrmr_i'[k][1], Range(selFidx)))

\* C15: selection never changes fdict or ffdict (keys and scores stay those
\* of the start), and compute leaves the selected list unchanged: only the
\* loop appends to it, once per round.
C15_MapsUnchanged == [][FrameStep]_vars

\* two rounds done over complete maps of three features
C15_Witness ==
    /\ pc = "done" /\ ncols = 3 /\ Len(selFidx) = 2 /\ Len(canFidx) = 1
    /\ DOMAIN fdict = 0..2 /\ DOMAIN ffdict = Pairs(3)

\* C16: every pairwise lookup of compute has a key (a, b) with a < b: the
\* candidate and the selected index are never equal, so with a map holding
\* every pair i < j over 0..F-1 no lookup of any round misses.
C16_LookupKeys ==
    /\ \A c \in Range(canFidx) : \A s \in Range(selFidx) :
          /\ c # s
          /\ ffKey(c, s)[1] < ffKey(c, s)[2]
          /\ ffKey(c, s) \in Pairs(ncols)
    /\ DOMAIN ffdict = Pairs(ncols) =>
          /\ pc # "KeyError"
          /\ \A c \in Range(canFidx) : ~compute(c, fdict, ffdict, selFidx).raised

\* a round about to look up a candidate between two selected indices
C16_Witness ==
    /\ pc = "loop" /\ i < nfs /\ ncols = 3
    /\ selFidx = <<2, 0>> /\ canFidx = <<1>>
    /\ DOMAIN ffdict = Pairs(3)

====
